---- MODULE Spec2Model ----
(***************************************************************************)
(* Model of the Wordle solver: the constraint filter                       *)
(* (WordleSolver.findPossibleWords) and the guess ranker                   *)
(* (WordleSolver.suggestGuesses and the partition score).                  *)
(*                                                                         *)
(* Letters are numbered (a = 1, b = 2, ...).  A word is a sequence of      *)
(* letters.  Position p of the model is the JavaScript index p - 1.        *)
(***************************************************************************)
EXTENDS Integers, Sequences, FiniteSets, TLC

\* ------------------------------------------------------------------ bounds
\* Size of the alphabet the words of the model are written in.
NumLetters == 2

\* Length of the words of the dictionary the solver is constructed for.
WordLength == 3

\* Number of constraints (locks, exclusion letters, excluded letters) a
\* caller accumulates before it stops adding more.
MaxConstraints == 3

Letters == 1..NumLetters

Positions == 1..WordLength

\* A missing key of the greenLetters object.
NoLetter == 0

Words == [Positions -> Letters]

\* ----------------------------------------------------- sequence helpers
Range(s) == {s[i] : i \in DOMAIN s}

\* word.includes(letter), letters.includes(letter)
Includes(s, x) == \E i \in DOMAIN s : s[i] = x

\* s.filter((l) => l === x).length
Occurrences(s, x) == Cardinality({i \in DOMAIN s : s[i] = x})

\* Lexicographic order of two words of the same length.
WordLess(v, w) ==
  \E i \in DOMAIN v :
    /\ v[i] < w[i]
    /\ \A j \in 1..(i - 1) : v[j] = w[j]

\* The words of a set as a sorted, duplicate-free list.
SortedWords(S) ==
  LET places == {<<Cardinality({v \in S : WordLess(v, w)}) + 1, w>> : w \in S}
  IN  [k \in 1..Cardinality(S) |->
         (CHOOSE place \in places : place[1] = k)[2]]

\* The dictionaries a solver is constructed with: the dictionary of all words
\* and, for every letter, the dictionary of the words that start with it;
\* each sorted and duplicate-free.
Dictionaries ==
  {SortedWords(Words)}
    \cup {SortedWords({w \in Words : w[1] = letter}) : letter \in Letters}

\* ------------------------------------------------- findPossibleWords
RECURSIVE SumUpTo(_, _)
\* f[1] + ... + f[n]
SumUpTo(f, n) == IF n = 0 THEN 0 ELSE f[n] + SumUpTo(f, n - 1)

\* [...new Set(greyLetters)]
uniqueGreyLetters(greyLetters) == Range(greyLetters)

\* Every letter that is green at some position or yellow at some position.
confirmedLetters(greenLetters, yellowLetters) ==
  {greenLetters[p] : p \in {q \in Positions : greenLetters[q] # NoLetter}}
    \cup UNION {Range(yellowLetters[p]) : p \in Positions}

\* trueGreyLetters that keeps the confirmed letters too.
trueGreyLetters_all(greenLetters, yellowLetters, greyLetters) ==
  uniqueGreyLetters(greyLetters)

trueGreyLetters(greenLetters, yellowLetters, greyLetters) ==
  {letter \in uniqueGreyLetters(greyLetters) :
     letter \notin confirmedLetters(greenLetters, yellowLetters)}

\* letterCounts.get(letter) || 0 : one for every green position holding the
\* letter and one for every occurrence of the letter in a yellow list.
letterCounts(greenLetters, yellowLetters, letter) ==
  Occurrences(greenLetters, letter)
    + SumUpTo([p \in Positions |-> Occurrences(yellowLetters[p], letter)],
              WordLength)

\* Check green letters (must be in exact positions).
greenCheck(word, greenLetters) ==
  \A p \in Positions :
    greenLetters[p] # NoLetter => word[p] = greenLetters[p]

\* yellowCheck without the test that the letter is somewhere in the word.
yellowCheck_positionOnly(word, yellowLetters) ==
  \A p \in Positions : ~Includes(yellowLetters[p], word[p])

\* Check yellow letters: not at this position, but somewhere in the word.
yellowCheck(word, yellowLetters) ==
  \A p \in Positions :
    /\ ~Includes(yellowLetters[p], word[p])
    /\ \A i \in DOMAIN yellowLetters[p] : Includes(word, yellowLetters[p][i])

\* trueGreyCheck that looks at the first letter of the word only.
trueGreyCheck_firstOnly(word, trueGrey) ==
  \A letter \in trueGrey : word[1] # letter

\* Check grey letters (only if they are not confirmed elsewhere).
trueGreyCheck(word, trueGrey) ==
  \A letter \in trueGrey : ~Includes(word, letter)

\* confirmedCountCheck that lets one occurrence more through.
confirmedCountCheck_oneMore(word, greenLetters, yellowLetters, uniqueGrey, confirmed) ==
  \A letter \in uniqueGrey :
    letter \in confirmed =>
      LET confirmedCount == letterCounts(greenLetters, yellowLetters, letter)
          wordCount == Occurrences(word, letter)
      IN  ~(wordCount > confirmedCount + 1)

\* A letter that is grey and also green or yellow: the word must not have
\* more occurrences of it than are confirmed.
confirmedCountCheck(word, greenLetters, yellowLetters, uniqueGrey, confirmed) ==
  \A letter \in uniqueGrey :
    letter \in confirmed =>
      LET confirmedCount == letterCounts(greenLetters, yellowLetters, letter)
          wordCount == Occurrences(word, letter)
      IN  ~(wordCount > confirmedCount)

\* findPossibleWords that also drops every word that comes first in the
\* list it is given.
findPossibleWords_dropFirst(dictionary, greenLetters, yellowLetters, greyLetters) ==
  LET uniqueGrey == uniqueGreyLetters(greyLetters)
      confirmed == confirmedLetters(greenLetters, yellowLetters)
      trueGrey == trueGreyLetters(greenLetters, yellowLetters, greyLetters)
  IN  SelectSeq(SubSeq(dictionary, 2, Len(dictionary)),
                LAMBDA word :
                  /\ greenCheck(word, greenLetters)
                  /\ yellowCheck(word, yellowLetters)
                  /\ trueGreyCheck(word, trueGrey)
                  /\ confirmedCountCheck(word, greenLetters, yellowLetters,
                                         uniqueGrey, confirmed))

findPossibleWords(dictionary, greenLetters, yellowLetters, greyLetters) ==
  LET uniqueGrey == uniqueGreyLetters(greyLetters)
      confirmed == confirmedLetters(greenLetters, yellowLetters)
      trueGrey == trueGreyLetters(greenLetters, yellowLetters, greyLetters)
  IN  SelectSeq(dictionary,
                LAMBDA word :
                  /\ greenCheck(word, greenLetters)
                  /\ yellowCheck(word, yellowLetters)
                  /\ trueGreyCheck(word, trueGrey)
                  /\ confirmedCountCheck(word, greenLetters, yellowLetters,
                                         uniqueGrey, confirmed))

\* The filter of src/wordleSolver.js: every grey letter is absent.
plainGreyCheck(word, greyLetters) ==
  \A i \in DOMAIN greyLetters : ~Includes(word, greyLetters[i])

findPossibleWordsPlain(dictionary, greenLetters, yellowLetters, greyLetters) ==
  SelectSeq(dictionary,
            LAMBDA word :
              /\ greenCheck(word, greenLetters)
              /\ yellowCheck(word, yellowLetters)
              /\ plainGreyCheck(word, greyLetters))

\* ------------------------------------------- calculatePartitionScore
\* solutionChars[i] = null, guessChars[i] = null
Null == 0

\* chars.indexOf(x): the first position holding x, 0 for JavaScript's -1.
indexOf(chars, x) ==
  IF \E j \in DOMAIN chars : chars[j] = x
  THEN CHOOSE j \in DOMAIN chars :
         /\ chars[j] = x
         /\ \A k \in 1..(j - 1) : chars[k] # x
  ELSE 0

\* First pass: find green matches and mark them as used in both words.
greenMatches(guess, solution) == {i \in Positions : guess[i] = solution[i]}

RECURSIVE secondPass_noConsume(_, _, _, _)
\* secondPass that does not mark the solution letter as used.
secondPass_noConsume(i, feedback, solutionChars, guessChars) ==
  IF i > WordLength THEN feedback
  ELSE IF guessChars[i] = Null
       THEN secondPass_noConsume(i + 1, feedback, solutionChars, guessChars)
       ELSE IF indexOf(solutionChars, guessChars[i]) # 0
            THEN secondPass_noConsume(i + 1, [feedback EXCEPT ![i] = "Y"],
                                      solutionChars, guessChars)
            ELSE secondPass_noConsume(i + 1, feedback, solutionChars,
                                      guessChars)

RECURSIVE secondPass(_, _, _, _)
\* Second pass, from position i on: a guess letter that is still in
\* solutionChars is yellow and uses up its first occurrence there.
secondPass(i, feedback, solutionChars, guessChars) ==
  IF i > WordLength THEN feedback
  ELSE IF guessChars[i] = Null
       THEN secondPass(i + 1, feedback, solutionChars, guessChars)
       ELSE LET solutionIdx == indexOf(solutionChars, guessChars[i])
            IN  IF solutionIdx # 0
                THEN secondPass(i + 1, [feedback EXCEPT ![i] = "Y"],
                                [solutionChars EXCEPT ![solutionIdx] = Null],
                                guessChars)
                ELSE secondPass(i + 1, feedback, solutionChars, guessChars)

\* The feedback pattern of a guess against a solution, one of "G", "Y", "X"
\* for every position.
simulateFeedback(guess, solution) ==
  LET greens == greenMatches(guess, solution)
  IN  secondPass(1,
                 [i \in Positions |-> IF i \in greens THEN "G" ELSE "X"],
                 [i \in Positions |-> IF i \in greens THEN Null ELSE solution[i]],
                 [i \in Positions |-> IF i \in greens THEN Null ELSE guess[i]])

\* Math.log2(n) in thousandths of a bit, for n = 1..32.
Log2Table ==
  <<0, 1000, 1585, 2000, 2322, 2585, 2807, 3000, 3170, 3322, 3459, 3585,
    3700, 3807, 3907, 4000, 4087, 4170, 4248, 4322, 4392, 4459, 4524, 4585,
    4644, 4700, 4755, 4807, 4858, 4907, 4954, 5000>>

\* log2 rounded down to whole bits.
log2_wholeBits(n) ==
  1000 * Cardinality({power \in {2, 4, 8, 16, 32} : power <= n})

log2(n) == Log2Table[n]

RECURSIVE SumOver(_, _)
\* The sum of f over the set S.
SumOver(f, S) ==
  IF S = {} THEN 0
  ELSE LET x == CHOOSE y \in S : TRUE
       IN  f[x] + SumOver(f, S \ {x})

\* The feedback of the guess against every possible solution, in order.
solutionFeedbacks(guess, possibleWords) ==
  [i \in DOMAIN possibleWords |-> simulateFeedback(guess, possibleWords[i])]

\* The Map of feedback pattern -> count.
patternCounts(feedbacks) ==
  [pattern \in Range(feedbacks) |-> Occurrences(feedbacks, pattern)]

\* entropyOf that adds count * log2(count) for every pattern.
entropyOf_countBits(patterns, totalWords) ==
  SumOver([pattern \in DOMAIN patterns |->
             patterns[pattern] * log2(patterns[pattern])],
          DOMAIN patterns)

\* The entropy of the patterns.  A pattern of probability count / totalWords
\* adds -probability * log2(probability), which is
\* count * (log2(totalWords) - log2(count)) / totalWords.  The operator
\* returns the score times totalWords, in thousandths of a bit, so that it
\* stays an integer.
entropyOf(patterns, totalWords) ==
  SumOver([pattern \in DOMAIN patterns |->
             patterns[pattern] * (log2(totalWords) - log2(patterns[pattern]))],
          DOMAIN patterns)

calculatePartitionScore(guess, possibleWords) ==
  entropyOf(patternCounts(solutionFeedbacks(guess, possibleWords)),
            Len(possibleWords))

\* ----------------------------------------------------- suggestGuesses
\* this.weight
weightUniqueLetters == 10

weightLetterFrequency == 1

weightInformationGain == 15

\* new Set(word.split(""))
uniqueLettersOf(word) == Range(word)

Min(a, b) == IF a <= b THEN a ELSE b

RECURSIVE Power(_, _)
Power(b, e) == IF e = 0 THEN 1 ELSE b * Power(b, e - 1)

\* A score is the number mant / 10^exp.  The scores of solution guesses and
\* of the initial guesses are whole numbers (exp = 0).  The scores of
\* scoreInformationWords are written in units of 1 / (2000 * N), N the number
\* of possible words of the call, which is the same for all words scored.
WholeScore(n) == [mant |-> n, exp |-> 0]

\* a.score > b.score, without leaving the 32-bit integers: when a has the
\* smaller exponent, a > b iff mant_a > floor(mant_b / 10^d); otherwise
\* a > b iff ceil(mant_a / 10^d) > mant_b.
ScoreGreater(a, b) ==
  IF a.exp <= b.exp
  THEN a.mant > b.mant \div Power(10, b.exp - a.exp)
  ELSE LET d == Power(10, a.exp - b.exp)
       IN  (a.mant + d - 1) \div d > b.mant

\* score.score > 0
ScorePositive(a) == a.mant > 0

\* wordScores.sort((a, b) => b.score - a.score): descending, and stable as
\* Array.prototype.sort is since ES2019.  An item comes after the items of
\* greater score and after the earlier items of equal score.
sortByScore(wordScores) ==
  LET items == SubSeq(wordScores, 1, Len(wordScores))
      before(i) ==
        {j \in DOMAIN items :
           \/ ScoreGreater(items[j].score, items[i].score)
           \/ /\ j < i
              /\ ~ScoreGreater(items[i].score, items[j].score)}
      places == {<<Cardinality(before(i)) + 1, i>> : i \in DOMAIN items}
  IN  [k \in DOMAIN items |->
         items[(CHOOSE place \in places : place[1] = k)[2]]]

\* The result if the array were not cut.
slice_whole(array, n) == array

\* array.slice(0, n)
slice(array, n) == SubSeq(array, 1, Min(n, Len(array)))

\* positionWeights[idx] || 1 : a weight of 0 is falsy and counts as 1.
weightOrOne(positionWeights, idx) ==
  IF positionWeights[idx] = 0 THEN 1 ELSE positionWeights[idx]

\* The letters that have an entry in letterFreq.
lettersOf(words) == UNION {uniqueLettersOf(words[i]) : i \in DOMAIN words}

\* calculateLetterFrequency(words, positionWeights): for every letter of the
\* words, the number of words that contain it (total), the number of words
\* that hold it at each position (positions) and, when weights are given,
\* the weighted sum of positions (weightedTotal, 0 when no weights are given
\* and the field is never read).
calculateLetterFrequency(words, positionWeights) ==
  LET positions(letter) ==
        [p \in Positions |->
           Cardinality({i \in DOMAIN words : words[i][p] = letter})]
      entry(letter) ==
        [total |->
           Cardinality({i \in DOMAIN words : Includes(words[i], letter)}),
         positions |-> positions(letter),
         weightedTotal |->
           IF positionWeights = <<>> THEN 0
           ELSE SumUpTo([p \in Positions |->
                           positions(letter)[p]
                             * weightOrOne(positionWeights, p)],
                        WordLength)]
      letterFreq == {<<letter, entry(letter)>> : letter \in lettersOf(words)}
  IN  [letter \in lettersOf(words) |->
         (CHOOSE freq \in letterFreq : freq[1] = letter)[2]]

\* The score of one word if every distinct letter counted as unused.
solutionScore_allUnused(word, usedLetters, letterFrequency) ==
  LET uniqueLetters == uniqueLettersOf(word)
  IN  Cardinality(uniqueLetters) * weightUniqueLetters
        + SumOver([letter \in uniqueLetters |->
                     letterFrequency[letter].total * weightLetterFrequency],
                  uniqueLetters)

\* scoreWords before the sort: the score of one word.
solutionScore(word, usedLetters, letterFrequency) ==
  LET uniqueLetters == uniqueLettersOf(word)
      unusedUniqueLetters == uniqueLetters \ usedLetters
  IN  Cardinality(unusedUniqueLetters) * weightUniqueLetters
        + SumOver([letter \in uniqueLetters |->
                     letterFrequency[letter].total * weightLetterFrequency],
                  uniqueLetters)

scoreWords(words, usedLetters, letterFrequency) ==
  sortByScore([i \in DOMAIN words |->
                 [word |-> words[i],
                  score |-> WholeScore(solutionScore(words[i], usedLetters,
                                                     letterFrequency)),
                  type |-> "solution"]])

\* Positions where all possible words have the same letter; NoLetter marks a
\* position that is no key of the result.
getGreenPositions(possibleWords) ==
  IF possibleWords = <<>> THEN [p \in Positions |-> NoLetter]
  ELSE [p \in Positions |->
          IF \A i \in DOMAIN possibleWords :
               possibleWords[i][p] = possibleWords[1][p]
          THEN possibleWords[1][p]
          ELSE NoLetter]

getGreenLetters(possibleWords) ==
  Range(getGreenPositions(possibleWords)) \ {NoLetter}

\* The yellow letters if they were the letters that some possible words, but
\* not all, contain.
getYellowLetters_notInAll(possibleWords) ==
  {letter \in lettersOf(possibleWords) :
     \E i \in DOMAIN possibleWords : ~Includes(possibleWords[i], letter)}

\* Letters that some possible words, but not all, hold at some position.
getYellowLetters(possibleWords) ==
  {letter \in lettersOf(possibleWords) :
     \E p \in Positions :
       /\ \E i \in DOMAIN possibleWords : possibleWords[i][p] = letter
       /\ ~(\A i \in DOMAIN possibleWords : possibleWords[i][p] = letter)}

\* The common letters if every letter of the words counted as common.
getCommonLetters_everyLetter(words) ==
  lettersOf(words)

\* Letters that appear in at least 20% of the words.
getCommonLetters(words) ==
  {letter \in lettersOf(words) :
     5 * Cardinality({i \in DOMAIN words : Includes(words[i], letter)})
       >= Len(words)}

\* possibleWords.length < 100 in selectInformationGuessCandidates
FewPossibleWords == 100

\* unusedCommonLetters.length >= 3
ManyUnusedLetters == 3

\* Array.from(new Set([...list, ...more])): more appended, without the words
\* that are in the list already and without the repetitions of a word.
appendNew(list, more) ==
  LET isNew(k) ==
        /\ ~Includes(list, more[k])
        /\ \A j \in 1..(k - 1) : more[j] # more[k]
      added == SelectSeq([k \in DOMAIN more |-> k], isNew)
  IN  list \o [n \in DOMAIN added |-> more[added[n]]]

selectInformationGuessCandidates(allWords, possibleWords, usedLetters) ==
  IF Len(possibleWords) < FewPossibleWords THEN allWords
  ELSE LET commonLetters == getCommonLetters(possibleWords)
           unusedCommon(word) ==
             (uniqueLettersOf(word) \ usedLetters) \cap commonLetters
       IN  appendNew(appendNew(<<>>, possibleWords),
                     SelectSeq(allWords,
                               LAMBDA word :
                                 Cardinality(unusedCommon(word))
                                   >= ManyUnusedLetters))

\* The score of one word if words without a discovery letter were scored like
\* the others.
informationScore_noSkip(word, usedLetters, letterFrequency, possibleWords, isFirstGuess) ==
  LET uniqueLetters == uniqueLettersOf(word)
      knownLetters ==
        getGreenLetters(possibleWords) \cup getYellowLetters(possibleWords)
      discoveryLetters == (uniqueLetters \ usedLetters) \ knownLetters
      partitionScore == calculatePartitionScore(word, possibleWords)
      bonusLetters == discoveryLetters \cap DOMAIN letterFrequency
      bonus ==
        SumOver([letter \in bonusLetters |->
                   letterFrequency[letter].weightedTotal
                     * weightLetterFrequency],
                bonusLetters)
      knownLettersUsed == Cardinality(uniqueLetters \cap knownLetters)
      greenPositions == getGreenPositions(possibleWords)
      greensUsed ==
        Cardinality({p \in Positions :
                       greenPositions[p] # NoLetter
                         /\ word[p] = greenPositions[p]})
  IN  IF isFirstGuess
      THEN [mant |-> 2 * weightInformationGain * partitionScore, exp |-> 0]
      ELSE [mant |->
              (2 * weightInformationGain * partitionScore
                 + 1000 * Len(possibleWords) * bonus)
                * Power(3, knownLettersUsed),
            exp |-> knownLettersUsed + greensUsed]

\* The score of one word in scoreInformationWords, in units of
\* 1 / (2000 * N), N = possibleWords.length:
\*   (15 * partition + 0.5 * sum of weightedTotal) * 0.3^known * 0.1^greens
\* with partition = calculatePartitionScore / (1000 * N).
informationScore(word, usedLetters, letterFrequency, possibleWords, isFirstGuess) ==
  LET uniqueLetters == uniqueLettersOf(word)
      knownLetters ==
        getGreenLetters(possibleWords) \cup getYellowLetters(possibleWords)
      discoveryLetters == (uniqueLetters \ usedLetters) \ knownLetters
      partitionScore == calculatePartitionScore(word, possibleWords)
      bonusLetters == discoveryLetters \cap DOMAIN letterFrequency
      bonus ==
        SumOver([letter \in bonusLetters |->
                   letterFrequency[letter].weightedTotal
                     * weightLetterFrequency],
                bonusLetters)
      knownLettersUsed == Cardinality(uniqueLetters \cap knownLetters)
      greenPositions == getGreenPositions(possibleWords)
      greensUsed ==
        Cardinality({p \in Positions :
                       greenPositions[p] # NoLetter
                         /\ word[p] = greenPositions[p]})
  IN  IF isFirstGuess
      THEN [mant |-> 2 * weightInformationGain * partitionScore, exp |-> 0]
      ELSE IF discoveryLetters = {}
           THEN WholeScore(0)
           ELSE [mant |->
                   (2 * weightInformationGain * partitionScore
                      + 1000 * Len(possibleWords) * bonus)
                     * Power(3, knownLettersUsed),
                 exp |-> knownLettersUsed + greensUsed]

scoreInformationWords(words, usedLetters, letterFrequency, possibleWords, isFirstGuess) ==
  sortByScore(
    SelectSeq([i \in DOMAIN words |->
                 [word |-> words[i],
                  score |-> informationScore(words[i], usedLetters,
                                             letterFrequency, possibleWords,
                                             isFirstGuess),
                  type |-> "information"]],
              LAMBDA item : ScorePositive(item.score)))

\* The pre-selected starting words for 5-letter Wordle: stare, crane, trace,
\* slate, crate (a = 1, ..., z = 26).
InitialWords ==
  <<<<19, 20, 1, 18, 5>>, <<3, 18, 1, 14, 5>>, <<20, 18, 1, 3, 5>>,
    <<19, 12, 1, 20, 5>>, <<3, 18, 1, 20, 5>>>>

InitialScores == <<100, 98, 98, 97, 97>>

initialTable(type) ==
  [i \in 1..5 |->
     [word |-> InitialWords[i], score |-> WholeScore(InitialScores[i]),
      type |-> type]]

\* getInitialGuesses for a solver with the given wordLength and wordList.
getInitialGuesses(wordLength, allWords) ==
  IF wordLength = 5
  THEN [solutionGuesses |-> initialTable("solution"),
        informationGuesses |-> initialTable("information")]
  ELSE LET letterFreq == calculateLetterFrequency(allWords, <<>>)
           quickScores ==
             slice(sortByScore(
                     [i \in DOMAIN allWords |->
                        [word |-> allWords[i],
                         score |->
                           WholeScore(
                             Cardinality(uniqueLettersOf(allWords[i]))
                                 * weightUniqueLetters
                               + SumOver(
                                   [letter \in uniqueLettersOf(allWords[i]) |->
                                      letterFreq[letter].total
                                        * weightLetterFrequency],
                                   uniqueLettersOf(allWords[i]))),
                         type |-> "solution"]]),
                   5)
       IN  [solutionGuesses |-> quickScores,
            informationGuesses |-> quickScores]

\* Create weights for unknown positions (0 for green positions).
greenPositionWeights(possibleWords) ==
  [p \in Positions |->
     IF getGreenPositions(possibleWords)[p] # NoLetter THEN 0 ELSE 1]

\* suggestGuesses of a solver with the given wordLength and wordList
\* (allWordList is a copy of it).
suggestGuesses(wordLength, allWords, possibleWords, usedLetters, numSuggestions) ==
  IF usedLetters = {} THEN getInitialGuesses(wordLength, allWords)
  ELSE IF possibleWords = <<>>
       THEN [solutionGuesses |-> <<>>, informationGuesses |-> <<>>]
       ELSE LET solutionLetterFreq ==
                  calculateLetterFrequency(possibleWords, <<>>)
                solutionScores ==
                  scoreWords(possibleWords, usedLetters, solutionLetterFreq)
                infoLetterFreq ==
                  calculateLetterFrequency(possibleWords,
                                           greenPositionWeights(possibleWords))
                candidateWords ==
                  selectInformationGuessCandidates(allWords, possibleWords,
                                                   usedLetters)
                informationScores ==
                  IF Len(possibleWords) >= 2
                  THEN scoreInformationWords(candidateWords, usedLetters,
                                             infoLetterFreq, possibleWords,
                                             FALSE)
                  ELSE <<>>
            IN  [solutionGuesses |-> slice(solutionScores, numSuggestions),
                 informationGuesses |->
                   slice(informationScores, numSuggestions)]

\* suggestGuesses of the solver of src/wordleSolver.js, which the command
\* line interface uses: one list of { word, score }.
suggestGuessesPlain(possibleWords, usedLetters, numSuggestions) ==
  IF possibleWords = <<>> THEN <<>>
  ELSE LET letterFrequency ==
             SubSeq([letter \in 1..(NumLetters + 1) |->
                       Cardinality({i \in DOMAIN possibleWords :
                                      Includes(possibleWords[i], letter)})],
                    1, NumLetters + 1)
           wordScores ==
             [i \in DOMAIN possibleWords |->
                LET uniqueLetters == uniqueLettersOf(possibleWords[i])
                    unusedUniqueLetters == uniqueLetters \ usedLetters
                IN  [word |-> possibleWords[i],
                     score |->
                       WholeScore(
                         Cardinality(unusedUniqueLetters) * weightUniqueLetters
                           + SumOver([letter \in uniqueLetters |->
                                        letterFrequency[letter]
                                          * weightLetterFrequency],
                                     uniqueLetters))]]
       IN  slice(sortByScore(wordScores), numSuggestions)

\* numSuggestions = 5, the default the caller relies on.
DefaultSuggestions == 5

\* ------------------------------------------------------------------ state
VARIABLES
  wordList,              \* this.wordList (and its copy this.allWordList)
  greenLetters,          \* position -> locked letter, NoLetter if none
  yellowLetters,         \* position -> list of letters excluded there
  greyLetters,           \* list of excluded letters
  currentPossibleWords,  \* the candidate list: result of findPossibleWords
  refiltered,            \* findPossibleWords run on its own output
  usedLetters,           \* the usedLetters passed to suggestGuesses
  suggestions,           \* result of suggestGuesses
  guess,                 \* the guess passed to calculatePartitionScore
  feedbacks,             \* simulateFeedback(guess, solution) per solution
  partitionScore,        \* result of calculatePartitionScore
  lastCall,              \* the operation that ran last
  solverLength,          \* this.wordLength, NoSolver before the first solver
  error,                 \* the error message of the last step, "" if none
  promptedWith,          \* the Constraint Set at the last prompt for a guess
  secret,                \* the word the user's feedback is about, <<>> if none
  guessCandidates        \* result of selectInformationGuessCandidates

vars ==
  <<wordList, greenLetters, yellowLetters, greyLetters, currentPossibleWords,
    refiltered, usedLetters, suggestions, guess, feedbacks, partitionScore,
    lastCall, solverLength, error, promptedWith, secret, guessCandidates>>

\* this.solver = null
NoSolver == 0

\* The variables of the command line session that a call of the solver
\* leaves alone.
solverVars ==
  <<solverLength, error, promptedWith, secret, guessCandidates>>

\* The Constraint Set of a new session: nothing locked, excluded or used.
NoConstraints ==
  [greenLetters |-> [p \in Positions |-> NoLetter],
   yellowLetters |-> [p \in Positions |-> <<>>],
   greyLetters |-> <<>>,
   usedLetters |-> {}]

\* A solver for words of length WordLength has been constructed, and no
\* guess has been asked for.
SolverReady ==
  /\ solverLength = WordLength
  /\ error = ""
  /\ promptedWith = NoConstraints
  /\ secret = <<>>
  /\ guessCandidates = <<>>

filterVars ==
  <<greenLetters, yellowLetters, greyLetters, refiltered>>

rankVars == <<usedLetters, suggestions, guess, feedbacks, partitionScore>>

NoLocks == [p \in Positions |-> NoLetter]

NoExclusions == [p \in Positions |-> <<>>]

NoSuggestions == [solutionGuesses |-> <<>>, informationGuesses |-> <<>>]

\* The values of the ranker's variables before any ranker call.
RankIdle ==
  /\ usedLetters = {}
  /\ suggestions = NoSuggestions
  /\ guess = <<>>
  /\ feedbacks = <<>>
  /\ partitionScore = 0

\* Number of constraints the caller holds.
numConstraints(green, yellow, grey) ==
  Cardinality({p \in Positions : green[p] # NoLetter})
    + SumUpTo([p \in Positions |-> Len(yellow[p])], WordLength)
    + Len(grey)

\* new WordleSolver(wordLength) followed by the first findPossibleWords()
\* call, with its default arguments.
Init ==
  /\ wordList \in Dictionaries
  /\ greenLetters = NoLocks
  /\ yellowLetters = NoExclusions
  /\ greyLetters = <<>>
  /\ currentPossibleWords =
       findPossibleWords(wordList, NoLocks, NoExclusions, <<>>)
  /\ refiltered = <<>>
  /\ RankIdle
  /\ SolverReady
  /\ lastCall = "findPossibleWords"

\* The caller changes one constraint and calls findPossibleWords again.
Filter(green, yellow, grey) ==
  /\ lastCall = "findPossibleWords"
  /\ numConstraints(greenLetters, yellowLetters, greyLetters) < MaxConstraints
  /\ greenLetters' = green
  /\ yellowLetters' = yellow
  /\ greyLetters' = grey
  /\ currentPossibleWords' = findPossibleWords(wordList, green, yellow, grey)
  /\ UNCHANGED <<wordList, refiltered, lastCall>>
  /\ UNCHANGED rankVars
  /\ UNCHANGED solverVars

\* The letter may be pushed after the letters of the list.
InOrder(list, letter) == \A i \in DOMAIN list : list[i] <= letter

\* A new lock: greenLetters[pos] = letter on a position without a lock.
AddLock ==
  \E p \in Positions, letter \in Letters :
    /\ greenLetters[p] = NoLetter
    /\ Filter([greenLetters EXCEPT ![p] = letter], yellowLetters, greyLetters)

\* yellowLetters[pos].push(letter).  The filter never reads the order of a
\* list, so the caller pushes in alphabetical order (repeats included).
AddExclusion ==
  \E p \in Positions, letter \in Letters :
    /\ InOrder(yellowLetters[p], letter)
    /\ Filter(greenLetters,
              [yellowLetters EXCEPT ![p] = Append(@, letter)], greyLetters)

\* greyLetters.push(letter), in alphabetical order (repeats included).
AddExcluded ==
  \E letter \in Letters :
    /\ InOrder(greyLetters, letter)
    /\ Filter(greenLetters, yellowLetters, Append(greyLetters, letter))

\* findPossibleWords of a solver whose wordList is the previous output,
\* called with the same constraints.  It ends the run.
Refilter ==
  /\ lastCall = "findPossibleWords"
  /\ refiltered' =
       findPossibleWords(currentPossibleWords, greenLetters, yellowLetters,
                         greyLetters)
  /\ lastCall' = "refilter"
  /\ UNCHANGED <<wordList, greenLetters, yellowLetters, greyLetters,
                 currentPossibleWords>>
  /\ UNCHANGED rankVars
  /\ UNCHANGED solverVars

\* The letters of the guesses made so far: every letter of a guess went into
\* greenLetters, yellowLetters or greyLetters with its feedback.
guessedLetters ==
  confirmedLetters(greenLetters, yellowLetters)
    \cup uniqueGreyLetters(greyLetters)

\* suggestGuesses(currentPossibleWords, Array.from(usedLetters)) after the
\* filter, with the letters guessed so far.  The call is taken when at most
\* one candidate is left; the ranker on longer candidate lists is run by
\* SpecSuggest.  It ends the run.
SuggestAtEnd ==
  /\ lastCall = "findPossibleWords"
  /\ Len(currentPossibleWords) <= 1
  /\ usedLetters' = guessedLetters
  /\ suggestions' =
       suggestGuesses(solverLength, wordList, currentPossibleWords,
                      guessedLetters, DefaultSuggestions)
  /\ lastCall' = "suggestGuesses"
  /\ UNCHANGED <<wordList, currentPossibleWords, guess, feedbacks,
                 partitionScore>>
  /\ UNCHANGED filterVars
  /\ UNCHANGED solverVars

Next ==
  \/ AddLock
  \/ AddExclusion
  \/ AddExcluded
  \/ Refilter
  \/ SuggestAtEnd

Spec == Init /\ [][Next]_vars

\* ------------------------------------------- properties of the filter
\* The letters that are in greyLetters and also locked or in an exclusion
\* list.
greyAndConfirmed ==
  {letter \in Range(greyLetters) :
     \/ \E p \in Positions : greenLetters[p] = letter
     \/ \E p \in Positions : Includes(yellowLetters[p], letter)}

\* Locked positions holding the letter plus occurrences of the letter in the
\* exclusion lists.
confirmedCountOf(letter) ==
  Cardinality({p \in Positions : greenLetters[p] = letter})
    + Cardinality(UNION {{<<p, i>> : i \in {j \in DOMAIN yellowLetters[p] :
                                              yellowLetters[p][j] = letter}} :
                         p \in Positions})

\* Locked positions holding the letter plus exclusion entries that contain
\* the letter.
confirmedEntriesOf(letter) ==
  Cardinality({p \in Positions : greenLetters[p] = letter})
    + Cardinality({p \in Positions : Includes(yellowLetters[p], letter)})

\* The word has the locked letter at every locked position.
meetsLocks(word) ==
  \A p \in Positions :
    greenLetters[p] = NoLetter \/ word[p] = greenLetters[p]

\* At every position the word's letter is none of the letters excluded there,
\* and every letter excluded somewhere occurs in the word.
meetsExclusions(word) ==
  \A p \in Positions :
    \A letter \in Range(yellowLetters[p]) :
      /\ word[p] # letter
      /\ \E q \in Positions : word[q] = letter

\* The word holds none of the letters.
holdsNone(word, letters) ==
  \A letter \in letters : \A p \in Positions : word[p] # letter

\* The word has at most confirmedCount occurrences of each of the letters.
withinConfirmed(word, letters) ==
  \A letter \in letters : Occurrences(word, letter) <= confirmedCountOf(letter)

\* C1 (amended): for a letter that is excluded and also locked or
\* exclusion-listed, findPossibleWords retains a word only if the word has at
\* most confirmedCount occurrences of the letter (locked positions holding it
\* plus its occurrences in the exclusion lists); a word with fewer
\* occurrences is not rejected: every dictionary word that meets the locks,
\* the exclusions and the plain excluded letters and has at most
\* confirmedCount occurrences of each such letter is retained.
C1_CountNotExceeded ==
  LET counted == greyAndConfirmed
      plain == Range(greyLetters) \ counted
      retained == Range(currentPossibleWords)
  IN  /\ \A word \in retained : withinConfirmed(word, counted)
      /\ \A word \in Range(wordList) \ retained :
           ~( /\ meetsLocks(word)
              /\ meetsExclusions(word)
              /\ holdsNone(word, plain)
              /\ withinConfirmed(word, counted) )

\* A retained word with fewer occurrences of an excluded and confirmed letter
\* than confirmedCount.
C1_RetainedWithFewer ==
  \E word \in Range(currentPossibleWords) :
    \E letter \in greyAndConfirmed :
      Occurrences(word, letter) < confirmedCountOf(letter)

\* C1 as stated: a retained word has exactly confirmedCount occurrences of
\* every excluded and confirmed letter, confirmedCount being the locked
\* positions holding it plus the exclusion entries containing it.
C1_CountExact ==
  \A word \in Range(currentPossibleWords) :
    \A letter \in greyAndConfirmed :
      Occurrences(word, letter) = confirmedEntriesOf(letter)

\* C2 as stated: a findPossibleWords call with one more constraint (lock,
\* exclusion letter or excluded letter) never returns more words than the
\* call before it.
C2_Monotone ==
  [][lastCall' = "findPossibleWords"
       => Len(currentPossibleWords') <= Len(currentPossibleWords)]_vars

\* C3: no word retained by findPossibleWords (of either solver version)
\* contains an excluded letter that is in no lock and in no exclusion list.
C3_PlainExcludedAbsent ==
  LET unconfirmed ==
        {letter \in Range(greyLetters) : confirmedEntriesOf(letter) = 0}
  IN  unconfirmed # {} =>
        /\ \A word \in Range(currentPossibleWords) :
             holdsNone(word, unconfirmed)
        /\ \A word \in Range(findPossibleWordsPlain(wordList, greenLetters,
                                                     yellowLetters,
                                                     greyLetters)) :
             holdsNone(word, unconfirmed)

\* An unconfirmed excluded letter has removed a dictionary word that meets
\* the locks and the exclusions, and some word is retained.
C3_ExcludedWordDropped ==
  /\ currentPossibleWords # <<>>
  /\ \E letter \in Range(greyLetters) :
       /\ confirmedEntriesOf(letter) = 0
       /\ \E word \in Range(wordList) :
            /\ Includes(word, letter)
            /\ meetsLocks(word)
            /\ meetsExclusions(word)

\* C4: with no excluded letters, findPossibleWords retains a dictionary word
\* if and only if the word has the locked letter at every locked position
\* and, for every exclusion entry, has none of the entry's letters at that
\* position and each of them somewhere.
C4_LocksAndExclusions ==
  greyLetters = <<>> =>
    LET retained == Range(currentPossibleWords)
    IN  \A word \in Range(wordList) :
          word \in retained <=> (meetsLocks(word) /\ meetsExclusions(word))

\* With no excluded letters, a lock and an exclusion entry are in force; a
\* word is retained and a word that meets the lock is rejected for leaving
\* out an exclusion letter it does not hold at the excluded position.
C4_LockAndExclusionActed ==
  /\ greyLetters = <<>>
  /\ \E p \in Positions : greenLetters[p] # NoLetter
  /\ currentPossibleWords # <<>>
  /\ \E word \in Range(wordList), p \in Positions :
       /\ yellowLetters[p] # <<>>
       /\ meetsLocks(word)
       /\ ~Includes(yellowLetters[p], word[p])
       /\ word \notin Range(currentPossibleWords)

\* C5: findPossibleWords run on the output of a findPossibleWords call, with
\* the same constraints, returns that output: same words, same order.
C5_Idempotent ==
  lastCall = "refilter" => refiltered = currentPossibleWords

\* The filter has run on its own output of two or more words, which is a
\* proper part of the dictionary.
C5_RefilteredSome ==
  /\ lastCall = "refilter"
  /\ Len(currentPossibleWords) >= 2
  /\ Len(currentPossibleWords) < Len(wordList)

\* A position is locked to a letter that is also in greyLetters.
lockedAndExcluded ==
  \E p \in Positions :
    /\ greenLetters[p] # NoLetter
    /\ Includes(greyLetters, greenLetters[p])

MaxCandidates == 3

\* The ranker is run on words over one more letter than the filter, so that
\* two possible words can give a guess the same feedback.
RankLetters == 1..(NumLetters + 1)

RankWords == [Positions -> RankLetters]

\* The candidate lists passed to the ranker: up to MaxCandidates consecutive
\* words of the sorted dictionary.
CandidateLists ==
  LET all == SortedWords(RankWords)
  IN  {SubSeq(all, start, start + n - 1) :
         <<start, n>> \in
           {t \in (1..Len(all)) \X (0..MaxCandidates) :
              t[1] + t[2] - 1 <= Len(all)}}

\* A solver for the dictionary of all words, and a candidate list.
InitRank ==
  /\ wordList = SortedWords(RankWords)
  /\ greenLetters = NoLocks
  /\ yellowLetters = NoExclusions
  /\ greyLetters = <<>>
  /\ currentPossibleWords \in CandidateLists
  /\ refiltered = <<>>
  /\ RankIdle
  /\ SolverReady
  /\ lastCall = "constructor"

\* calculatePartitionScore(guess, possibleWords) for a guess word.
CalculatePartitionScore ==
  \E g \in RankWords :
    /\ lastCall = "constructor"
    /\ guess' = g
    /\ feedbacks' = solutionFeedbacks(g, currentPossibleWords)
    /\ partitionScore' = calculatePartitionScore(g, currentPossibleWords)
    /\ lastCall' = "calculatePartitionScore"
    /\ UNCHANGED <<wordList, currentPossibleWords, usedLetters, suggestions>>
    /\ UNCHANGED filterVars
    /\ UNCHANGED solverVars

SpecRank == InitRank /\ [][CalculatePartitionScore]_vars

\* The candidate lists passed to suggestGuesses: up to MaxCandidates words of
\* the sorted dictionary, consecutive or one word in every
\* Cardinality(RankLetters) + 1, from a start that is spread over the
\* dictionary; and the first words of the dictionary, one more than the
\* default numSuggestions.
SuggestLists ==
  LET all == SortedWords(RankWords)
      letters == Cardinality(RankLetters)
      stride == Power(letters, WordLength - 2) + 1
      starts == {start \in 1..Len(all) : start % stride = 1}
  IN  {[k \in 1..n |-> all[start + (k - 1) * step]] :
         <<start, step, n>> \in
           {t \in starts \X {1, letters + 1} \X (0..MaxCandidates) :
              t[1] + (t[3] - 1) * t[2] <= Len(all)}}
        \cup {SubSeq(all, 1, DefaultSuggestions + 1)}

\* The dictionary of a solver for five-letter words: the pre-selected
\* starting words, sorted.
FiveLetterWords == SortedWords(Range(InitialWords))

\* A solver for the dictionary of all words and a candidate list, or a solver
\* for five-letter words before the first guess.
InitSuggest ==
  /\ \/ /\ wordList = SortedWords(RankWords)
        /\ currentPossibleWords \in SuggestLists
        /\ solverLength = WordLength
     \/ /\ wordList = FiveLetterWords
        /\ currentPossibleWords \in {<<>>, FiveLetterWords}
        /\ solverLength = 5
  /\ error = ""
  /\ promptedWith = NoConstraints
  /\ secret = <<>>
  /\ guessCandidates = <<>>
  /\ greenLetters = NoLocks
  /\ yellowLetters = NoExclusions
  /\ greyLetters = <<>>
  /\ refiltered = <<>>
  /\ RankIdle
  /\ lastCall = "constructor"

\* suggestGuesses(possibleWords, usedLetters) with the default numSuggestions.
\* The solver for five-letter words is asked for the first guess only
\* (usedLetters empty).
SuggestGuesses ==
  \E used \in SUBSET RankLetters :
    /\ lastCall = "constructor"
    /\ solverLength = WordLength \/ used = {}
    /\ usedLetters' = used
    /\ suggestions' =
         suggestGuesses(solverLength, wordList, currentPossibleWords, used,
                        DefaultSuggestions)
    /\ lastCall' = "suggestGuesses"
    /\ UNCHANGED <<wordList, currentPossibleWords, guess, feedbacks,
                   partitionScore>>
    /\ UNCHANGED filterVars
    /\ UNCHANGED solverVars

SpecSuggest == InitSuggest /\ [][SuggestGuesses]_vars

\* ------------------------------------------- properties of the ranker
\* C7 as stated: suggestGuesses called with an empty candidate set returns an
\* empty list for both strategies, whatever usedLetters is.
C7_EmptyGivesEmpty ==
  (lastCall = "suggestGuesses" /\ currentPossibleWords = <<>>)
    => /\ suggestions.solutionGuesses = <<>>
       /\ suggestions.informationGuesses = <<>>

\* C8: simulateFeedback marks a position G exactly when the guess and the
\* solution hold the same letter there, and for every letter the number of
\* positions of the guess holding it that are marked G or Y is the smaller of
\* its occurrences in the guess and in the solution.
C8_FeedbackCounts ==
  lastCall = "calculatePartitionScore" =>
    \A i \in DOMAIN feedbacks :
      LET feedback == feedbacks[i]
          solution == currentPossibleWords[i]
      IN  /\ \A p \in Positions :
               feedback[p] = "G" <=> guess[p] = solution[p]
          /\ \A letter \in RankLetters :
               Cardinality({p \in Positions :
                              /\ guess[p] = letter
                              /\ feedback[p] \in {"G", "Y"}})
                 = Min(Occurrences(guess, letter),
                       Occurrences(solution, letter))

\* A guess holds a letter twice, off position both times, and the solution
\* holds it once: the first is marked Y and the second X.
C8_RepeatedLetterOnceYellow ==
  /\ lastCall = "calculatePartitionScore"
  /\ \E i \in DOMAIN feedbacks :
       \E p \in Positions, q \in Positions :
         /\ p < q
         /\ guess[p] = guess[q]
         /\ Occurrences(currentPossibleWords[i], guess[p]) = 1
         /\ feedbacks[i][p] = "Y"
         /\ feedbacks[i][q] = "X"

\* C9: calculatePartitionScore returns 0 for a candidate set of one word and
\* whenever every candidate gives the guess the same feedback pattern.
C9_SinglePatternScoresZero ==
  lastCall = "calculatePartitionScore" =>
    /\ Len(currentPossibleWords) = 1 => partitionScore = 0
    /\ (\A i \in DOMAIN feedbacks, j \in DOMAIN feedbacks :
          feedbacks[i] = feedbacks[j])
         => partitionScore = 0

\* Two or more candidates give the guess one and the same feedback pattern.
C9_SeveralCandidatesOnePattern ==
  /\ lastCall = "calculatePartitionScore"
  /\ Len(currentPossibleWords) >= 2
  /\ \A i \in DOMAIN feedbacks, j \in DOMAIN feedbacks :
       feedbacks[i] = feedbacks[j]

candidatesWith(letter) ==
  Cardinality({i \in DOMAIN currentPossibleWords :
                 Includes(currentPossibleWords[i], letter)})

\* 10 x (distinct letters of the word not in usedLetters) + the sum over the
\* distinct letters of the word of the number of candidate words with it.
freshAndFrequent(word) ==
  10 * Cardinality({letter \in Range(word) : letter \notin usedLetters})
    + SumOver([letter \in Range(word) |-> candidatesWith(letter)],
              Range(word))

\* Every item of the list is a candidate word with the score above, and every
\* candidate word has an item when the list was not cut.
scoredAsSolutions(list) ==
  /\ \A i \in DOMAIN list :
       /\ Includes(currentPossibleWords, list[i].word)
       /\ list[i].score = WholeScore(freshAndFrequent(list[i].word))
  /\ Len(list) = Min(Len(currentPossibleWords), DefaultSuggestions)
  /\ Len(currentPossibleWords) <= DefaultSuggestions
       => \A j \in DOMAIN currentPossibleWords :
            \E i \in DOMAIN list : list[i].word = currentPossibleWords[j]

\* C11: for every candidate word, the solution score computed by scoreWords
\* is 10 x (number of distinct letters of the word that are not in
\* usedLetters) + the sum, over the distinct letters of the word, of the
\* number of candidate words that contain the letter.  scoreWords runs when
\* usedLetters is not empty; the solver of src/wordleSolver.js computes the
\* same score on every call.
C11_SolutionScore ==
  (lastCall = "suggestGuesses" /\ solverLength = WordLength)
    => /\ usedLetters # {} => scoredAsSolutions(suggestions.solutionGuesses)
       /\ scoredAsSolutions(
            suggestGuessesPlain(currentPossibleWords, usedLetters,
                                DefaultSuggestions))

\* C11 happens: scoreWords scored several candidate words, one of them with
\* a repeated letter, a used letter and an unused letter.
C11_UsedAndUnusedScored ==
  /\ lastCall = "suggestGuesses"
  /\ usedLetters # {}
  /\ Len(suggestions.solutionGuesses) >= 2
  /\ \E i \in DOMAIN suggestions.solutionGuesses :
       LET word == suggestions.solutionGuesses[i].word
       IN  /\ Cardinality(Range(word)) < WordLength
           /\ Range(word) \cap usedLetters # {}
           /\ Range(word) \ usedLetters # {}

\* The items of the list are in non-increasing order of score, and two items
\* of equal score are in the order of the dictionary, which is sorted.
rankedInOrder(list) ==
  \A i, j \in DOMAIN list :
    i < j
      => /\ ~ScoreGreater(list[j].score, list[i].score)
         /\ ~ScoreGreater(list[i].score, list[j].score)
              => WordLess(list[i].word, list[j].word)

\* C12 as stated: the solution suggestion list is ordered by non-increasing
\* score, and any two suggestions of equal score appear in the same relative
\* order as in the dictionary.
C12_SolutionsInOrder ==
  lastCall = "suggestGuesses"
    => rankedInOrder(suggestions.solutionGuesses)

\* C13 as stated: the information suggestion list is ordered by
\* non-increasing score, and any two information suggestions of equal score
\* appear in dictionary order.
C13_InformationInOrder ==
  lastCall = "suggestGuesses"
    => rankedInOrder(suggestions.informationGuesses)

\* C20 as stated: every suggestion of the solution list carries the strategy
\* tag 'solution' and every suggestion of the information list carries the
\* tag 'information', for every word length and also for the first guess
\* (usedLetters empty).
C20_StrategyTags ==
  lastCall = "suggestGuesses"
    => /\ \A i \in DOMAIN suggestions.solutionGuesses :
            suggestions.solutionGuesses[i].type = "solution"
       /\ \A i \in DOMAIN suggestions.informationGuesses :
            suggestions.informationGuesses[i].type = "information"

\* The letters of the word that are neither used nor known: not in
\* usedLetters and neither a green nor a yellow letter of the candidates.
newUnknownLetters(word) ==
  (Range(word) \ usedLetters)
    \ (getGreenLetters(currentPossibleWords)
         \cup getYellowLetters(currentPossibleWords))

\* The word has an item in the list.
listed(list, word) == \E i \in DOMAIN list : list[i].word = word

\* C14: when usedLetters is not empty, every word of the information
\* suggestion list has a score greater than 0 and at least one letter that is
\* not in usedLetters (a new unknown letter); a guess word with no new
\* unknown letter gets score 0 and never appears in the list, whatever its
\* partition score.
C14_InformationWordsAreNew ==
  (lastCall = "suggestGuesses" /\ usedLetters # {})
    => LET list == suggestions.informationGuesses
           words == {wordList[i] : i \in DOMAIN wordList}
           stale == {word \in words : newUnknownLetters(word) = {}}
           infoLetterFreq ==
             calculateLetterFrequency(
               currentPossibleWords,
               greenPositionWeights(currentPossibleWords))
       IN  /\ \A i \in DOMAIN list :
                /\ ScorePositive(list[i].score)
                /\ Range(list[i].word) \ usedLetters # {}
                /\ newUnknownLetters(list[i].word) # {}
           /\ \A word \in stale :
                /\ ~listed(list, word)
                /\ Len(currentPossibleWords) >= 2
                     => informationScore(word, usedLetters, infoLetterFreq,
                                         currentPossibleWords, FALSE)
                          = WholeScore(0)

\* C14 happens: with usedLetters not empty the information list has items,
\* and a dictionary word that splits the candidates (partition score above 0)
\* has no new unknown letter.
C14_StaleWordSplitsCandidates ==
  /\ lastCall = "suggestGuesses"
  /\ usedLetters # {}
  /\ suggestions.informationGuesses # <<>>
  /\ \E i \in DOMAIN wordList :
       /\ newUnknownLetters(wordList[i]) = {}
       /\ calculatePartitionScore(wordList[i], currentPossibleWords) > 0

\* --------------------------------------------- the command line session
\* parseInt(lengthInput) of an input that is no number.
NaN == -1

\* The Map of word length -> sorted word list that the solver requires.  The
\* session runs on words over the letters of the ranker.  WordLength - 1 is
\* a key with an empty list, the case the constructor guards against;
\* WordLength + 1 is no key.
wordLists ==
  [length \in {WordLength - 1, WordLength} |->
     IF length = WordLength THEN SortedWords(RankWords) ELSE <<>>]

\* WordleSolver.getAvailableWordLengths()
getAvailableWordLengths == DOMAIN wordLists

\* What the user answers to the question for the word length.
LengthInputs == {NaN} \cup ((WordLength - 1)..(WordLength + 1))

\* A constructor that returns a solver whatever its word list holds.
newWordleSolver_noThrow(wordLength) ==
  [error |-> "",
   wordList |->
     IF wordLength \in DOMAIN wordLists THEN wordLists[wordLength] ELSE <<>>]

\* new WordleSolver(wordLength): the solver's wordList, or the message of the
\* error thrown.
newWordleSolver(wordLength) ==
  LET list ==
        IF wordLength \in DOMAIN wordLists THEN wordLists[wordLength]
        ELSE <<>>
  IN  IF Len(list) = 0
      THEN [error |-> "No words found in dictionary", wordList |-> <<>>]
      ELSE [error |-> "", wordList |-> list]

\* The characters of a feedback string.
FeedbackColors == {"g", "y", "x"}

\* processFeedback without the test of the characters: a position with
\* another character is skipped by the switch.
processFeedback_unchecked(feedback, guessedWord, green, yellow, grey) ==
  IF Len(feedback) # WordLength
  THEN [error |-> "Feedback must be exactly wordLength letters long",
        greenLetters |-> green, yellowLetters |-> yellow,
        greyLetters |-> grey]
  ELSE LET greyPositions ==
             SelectSeq([p \in Positions |-> p],
                       LAMBDA p : feedback[p] = "x")
       IN  [error |-> "",
            greenLetters |->
              [p \in Positions |->
                 IF feedback[p] = "g" THEN guessedWord[p] ELSE green[p]],
            yellowLetters |->
              [p \in Positions |->
                 IF feedback[p] = "y" THEN Append(yellow[p], guessedWord[p])
                 ELSE yellow[p]],
            greyLetters |->
              grey \o [k \in DOMAIN greyPositions |->
                         guessedWord[greyPositions[k]]]]

\* processFeedback(feedback, guessedWord): the message of the error thrown
\* and the constraints after the call.
processFeedback(feedback, guessedWord, green, yellow, grey) ==
  IF Len(feedback) # WordLength
  THEN [error |-> "Feedback must be exactly wordLength letters long",
        greenLetters |-> green, yellowLetters |-> yellow,
        greyLetters |-> grey]
  ELSE IF \E p \in DOMAIN feedback : feedback[p] \notin FeedbackColors
       THEN [error |-> "Feedback can only contain the letters g, y, and x",
             greenLetters |-> green, yellowLetters |-> yellow,
             greyLetters |-> grey]
       ELSE LET greyPositions ==
                  SelectSeq([p \in Positions |-> p],
                            LAMBDA p : feedback[p] = "x")
            IN  [error |-> "",
                 greenLetters |->
                   [p \in Positions |->
                      IF feedback[p] = "g" THEN guessedWord[p]
                      ELSE green[p]],
                 yellowLetters |->
                   [p \in Positions |->
                      IF feedback[p] = "y"
                      THEN Append(yellow[p], guessedWord[p])
                      ELSE yellow[p]],
                 greyLetters |->
                   grey \o [k \in DOMAIN greyPositions |->
                              guessedWord[greyPositions[k]]]]

\* The words the user enters as guesses: one letter at every position, and
\* the letters in turn.
Guesses ==
  {[p \in Positions |-> 1],
   [p \in Positions |-> ((p - 1) % Cardinality(RankLetters)) + 1]}

\* What the user answers to the question for a guess: q, l, an input of
\* another length than the word length, or a guess.
GuessInputs ==
  {[command |-> "q", word |-> <<>>], [command |-> "l", word |-> <<>>],
   [command |-> "", word |-> [p \in 1..(WordLength - 1) |-> 1]]}
    \cup {[command |-> "", word |-> word] : word \in Guesses}

\* Feedback strings that processFeedback rejects: one character short, and a
\* character that is no colour.
MalformedFeedbacks ==
  {[p \in 1..(WordLength - 1) |-> "g"],
   [p \in Positions |-> IF p = WordLength THEN "b" ELSE "g"]}

\* What the user answers to the question for the feedback.
FeedbackInputs ==
  {<<"q">>} \cup [Positions -> FeedbackColors] \cup MalformedFeedbacks

\* new WordleCLI() followed by start() up to its question for the length.
newWordleCLI ==
  /\ wordList = <<>>
  /\ solverLength = NoSolver
  /\ greenLetters = NoLocks
  /\ yellowLetters = NoExclusions
  /\ greyLetters = <<>>
  /\ usedLetters = {}
  /\ currentPossibleWords = <<>>
  /\ suggestions = <<>>
  /\ guess = <<>>
  /\ refiltered = <<>>
  /\ feedbacks = <<>>
  /\ partitionScore = 0
  /\ error = ""
  /\ promptedWith = NoConstraints
  /\ guessCandidates = <<>>
  /\ lastCall = "start"

\* A session in which the user enters any feedback.
InitSession ==
  /\ newWordleCLI
  /\ secret = <<>>

\* getNextGuess if it asked for a guess when one word is possible.
getNextGuess_singletonGoesOn(solverWords, green, yellow, grey, used) ==
  LET possibleWords == findPossibleWordsPlain(solverWords, green, yellow, grey)
  IN  /\ currentPossibleWords' = possibleWords
      /\ suggestions' =
           suggestGuessesPlain(possibleWords, used, DefaultSuggestions)
      /\ promptedWith' =
           [greenLetters |-> green, yellowLetters |-> yellow,
            greyLetters |-> grey, usedLetters |-> used]
      /\ guess' = <<>>
      /\ lastCall' =
           IF Len(possibleWords) = 0 THEN "askToContinue"
           ELSE "getNextGuess"

\* getNextGuess of a session with the given solver and Constraint Set, up to
\* its question for a guess, or to the question of askToContinue when at
\* most one word is possible.
getNextGuess(solverWords, green, yellow, grey, used) ==
  LET possibleWords == findPossibleWordsPlain(solverWords, green, yellow, grey)
  IN  /\ currentPossibleWords' = possibleWords
      /\ suggestions' =
           suggestGuessesPlain(possibleWords, used, DefaultSuggestions)
      /\ promptedWith' =
           [greenLetters |-> green, yellowLetters |-> yellow,
            greyLetters |-> grey, usedLetters |-> used]
      /\ guess' = <<>>
      /\ lastCall' =
           IF Len(possibleWords) <= 1 THEN "askToContinue"
           ELSE "getNextGuess"

\* start: the user answers the question for the length.  A length that is no
\* available length, or for which the constructor throws, is asked for
\* again; with a solver, getNextGuess runs.
EnterLength ==
  \E length \in LengthInputs :
    /\ lastCall = "start"
    /\ UNCHANGED <<greenLetters, yellowLetters, greyLetters, usedLetters,
                   refiltered, feedbacks, partitionScore, secret, guessCandidates>>
    /\ IF length = NaN \/ length \notin getAvailableWordLengths
       THEN /\ error' = "Invalid length"
            /\ UNCHANGED <<wordList, solverLength, currentPossibleWords,
                           suggestions, guess, promptedWith, lastCall>>
       ELSE LET solver == newWordleSolver(length)
            IN  IF solver.error # ""
                THEN /\ error' = solver.error
                     /\ UNCHANGED <<wordList, solverLength,
                                    currentPossibleWords, suggestions, guess,
                                    promptedWith, lastCall>>
                ELSE /\ wordList' = solver.wordList
                     /\ solverLength' = length
                     /\ error' = ""
                     /\ getNextGuess(solver.wordList, greenLetters,
                                     yellowLetters, greyLetters, usedLetters)

\* getNextGuess after the question if the letters of a guess were not added
\* to usedLetters.
EnterGuess_lettersNotAdded ==
  \E input \in GuessInputs :
    /\ lastCall = "getNextGuess"
    /\ numConstraints(greenLetters, yellowLetters, greyLetters)
         <= MaxConstraints
    /\ UNCHANGED <<wordList, solverLength, greenLetters, yellowLetters,
                   greyLetters, refiltered, feedbacks, partitionScore,
                   secret, guessCandidates, usedLetters>>
    /\ IF input.command = "q"
       THEN /\ lastCall' = "close"
            /\ error' = ""
            /\ UNCHANGED <<currentPossibleWords, suggestions, guess,
                           promptedWith>>
       ELSE IF input.command = "l"
            THEN /\ error' = ""
                 /\ getNextGuess(wordList, greenLetters, yellowLetters,
                                 greyLetters, usedLetters)
            ELSE IF Len(input.word) # solverLength
                 THEN /\ error' = "Please enter a word of the word length"
                      /\ getNextGuess(wordList, greenLetters, yellowLetters,
                                      greyLetters, usedLetters)
                 ELSE /\ guess' = input.word
                      /\ lastCall' = "getFeedback"
                      /\ error' = ""
                      /\ UNCHANGED <<currentPossibleWords, suggestions,
                                     promptedWith>>

\* getNextGuess: the user answers the question for a guess.  q closes the
\* session; l and an input of another length run getNextGuess again; the
\* letters of a guess are added to usedLetters and getFeedback asks for the
\* feedback.
EnterGuess ==
  \E input \in GuessInputs :
    /\ lastCall = "getNextGuess"
    /\ numConstraints(greenLetters, yellowLetters, greyLetters)
         <= MaxConstraints
    /\ UNCHANGED <<wordList, solverLength, greenLetters, yellowLetters,
                   greyLetters, refiltered, feedbacks, partitionScore,
                   secret, guessCandidates>>
    /\ IF input.command = "q"
       THEN /\ lastCall' = "close"
            /\ error' = ""
            /\ UNCHANGED <<usedLetters, currentPossibleWords, suggestions,
                           guess, promptedWith>>
       ELSE IF input.command = "l"
            THEN /\ error' = ""
                 /\ UNCHANGED usedLetters
                 /\ getNextGuess(wordList, greenLetters, yellowLetters,
                                 greyLetters, usedLetters)
            ELSE IF Len(input.word) # solverLength
                 THEN /\ error' = "Please enter a word of the word length"
                      /\ UNCHANGED usedLetters
                      /\ getNextGuess(wordList, greenLetters, yellowLetters,
                                      greyLetters, usedLetters)
                 ELSE /\ usedLetters' = usedLetters \cup Range(input.word)
                      /\ guess' = input.word
                      /\ lastCall' = "getFeedback"
                      /\ error' = ""
                      /\ UNCHANGED <<currentPossibleWords, suggestions,
                                     promptedWith>>

\* getFeedback: the user answers the question for the feedback.  q closes
\* the session; feedback that processFeedback rejects is asked for again;
\* after feedback that it applies, getNextGuess runs.
EnterFeedback ==
  \E feedback \in FeedbackInputs :
    /\ lastCall = "getFeedback"
    /\ UNCHANGED <<wordList, solverLength, usedLetters, refiltered,
                   feedbacks, partitionScore, secret, guessCandidates>>
    /\ IF feedback = <<"q">>
       THEN /\ lastCall' = "close"
            /\ error' = ""
            /\ UNCHANGED <<greenLetters, yellowLetters, greyLetters,
                           currentPossibleWords, suggestions, guess,
                           promptedWith>>
       ELSE LET result ==
                  processFeedback(feedback, guess, greenLetters,
                                  yellowLetters, greyLetters)
            IN  /\ error' = result.error
                /\ greenLetters' = result.greenLetters
                /\ yellowLetters' = result.yellowLetters
                /\ greyLetters' = result.greyLetters
                /\ IF result.error # ""
                   THEN UNCHANGED <<currentPossibleWords, suggestions, guess,
                                    promptedWith, lastCall>>
                   ELSE getNextGuess(wordList, result.greenLetters,
                                     result.yellowLetters,
                                     result.greyLetters, usedLetters)

\* askToContinue if y left the excluded letters of the last game in place.
AnswerContinue_keepGrey ==
  \E answer \in {"y", "n"} :
    /\ lastCall = "askToContinue"
    /\ error' = ""
    /\ UNCHANGED <<solverLength, suggestions, guess, refiltered, feedbacks,
                   partitionScore, secret, guessCandidates>>
    /\ IF answer = "y"
       THEN /\ greenLetters' = NoLocks
            /\ yellowLetters' = NoExclusions
            /\ UNCHANGED greyLetters
            /\ usedLetters' = {}
            /\ currentPossibleWords' = <<>>
            /\ wordList' = <<>>
            /\ promptedWith' = NoConstraints
            /\ lastCall' = "start"
       ELSE /\ lastCall' = "close"
            /\ UNCHANGED <<wordList, greenLetters, yellowLetters,
                           greyLetters, usedLetters, currentPossibleWords,
                           promptedWith>>

\* askToContinue: y resets the session, clears the solver and runs start up
\* to its question for the length (this.wordLength is left as it is);
\* another answer closes the session.
AnswerContinue ==
  \E answer \in {"y", "n"} :
    /\ lastCall = "askToContinue"
    /\ error' = ""
    /\ UNCHANGED <<solverLength, suggestions, guess, refiltered, feedbacks,
                   partitionScore, secret, guessCandidates>>
    /\ IF answer = "y"
       THEN /\ greenLetters' = NoLocks
            /\ yellowLetters' = NoExclusions
            /\ greyLetters' = <<>>
            /\ usedLetters' = {}
            /\ currentPossibleWords' = <<>>
            /\ wordList' = <<>>
            /\ promptedWith' = NoConstraints
            /\ lastCall' = "start"
       ELSE /\ lastCall' = "close"
            /\ UNCHANGED <<wordList, greenLetters, yellowLetters,
                           greyLetters, usedLetters, currentPossibleWords,
                           promptedWith>>

NextSession ==
  \/ EnterLength
  \/ EnterGuess
  \/ EnterFeedback
  \/ AnswerContinue

SpecSession == InitSession /\ [][NextSession]_vars

\* ------------------------------------------- properties of the session
\* The word list of the length is missing or empty.
noWordsOf(length) ==
  length \notin DOMAIN wordLists \/ wordLists[length] = <<>>

\* C15: constructing a solver for a word length that has no dictionary
\* entries (absent from the length map or mapped to an empty list) fails with
\* an error instead of producing a solver with an empty dictionary, and the
\* session does not reach the guessing phase until a solver for a supported
\* length has been constructed.
C15_NoSolverWithoutWords ==
  /\ \A length \in LengthInputs \ {NaN} :
       noWordsOf(length) => newWordleSolver(length).error # ""
  /\ lastCall \in {"getNextGuess", "getFeedback", "askToContinue"}
       => /\ ~noWordsOf(solverLength)
          /\ wordList = wordLists[solverLength]
  /\ error = "No words found in dictionary"
       => /\ lastCall = "start"
          /\ wordList = <<>>

\* C15 happens: the constructor threw for a length without words and the
\* session asks for the length again, without a solver.
C15_ConstructorThrew ==
  /\ error = "No words found in dictionary"
  /\ lastCall = "start"
  /\ wordList = <<>>

\* The messages of the errors of processFeedback.
FeedbackErrors ==
  {"Feedback must be exactly wordLength letters long",
   "Feedback can only contain the letters g, y, and x"}

\* The locks, exclusions and excluded letters are those of the last prompt
\* for a guess.
locksAsPrompted ==
  /\ greenLetters = promptedWith.greenLetters
  /\ yellowLetters = promptedWith.yellowLetters
  /\ greyLetters = promptedWith.greyLetters

\* C16, with the used letters as the code keeps them: processFeedback given
\* feedback whose length differs from the word length, or that holds a
\* character other than g, y, x, reports an error and applies no position of
\* the feedback: the locks, exclusions and excluded letters are as they were
\* before the guess was entered.  The used letters are as they were when the
\* feedback was asked for: those before the guess was entered and the
\* letters of the guess, which is still the guess the feedback is asked for.
C16_RejectionAppliesNothing ==
  /\ lastCall = "getFeedback"
       => \A feedback \in MalformedFeedbacks :
            LET result ==
                  processFeedback(feedback, guess, greenLetters,
                                  yellowLetters, greyLetters)
            IN  /\ result.error \in FeedbackErrors
                /\ result.greenLetters = greenLetters
                /\ result.yellowLetters = yellowLetters
                /\ result.greyLetters = greyLetters
  /\ error \in FeedbackErrors
       => /\ lastCall = "getFeedback"
          /\ locksAsPrompted
          /\ usedLetters = promptedWith.usedLetters \cup Range(guess)

\* C16 happens: feedback was rejected for a guess made under constraints.
C16_FeedbackRejected ==
  /\ error \in FeedbackErrors
  /\ lastCall = "getFeedback"
  /\ greenLetters # NoLocks
  /\ greyLetters # <<>>

\* C16 as stated: after rejected feedback the whole Constraint Set (locks,
\* exclusions, excluded letters, used letters) is exactly as it was before
\* the rejected guess was entered.
C16_RejectionRestoresConstraintSet ==
  error \in FeedbackErrors
    => /\ locksAsPrompted
       /\ usedLetters = promptedWith.usedLetters

\* C17 as stated: in every reachable session state no letter is both the
\* locked letter of a position and a member of the exclusion list of that
\* same position.
C17_NeverLockedAndExcluded ==
  \A p \in Positions :
    greenLetters[p] = NoLetter
      \/ ~Includes(yellowLetters[p], greenLetters[p])

\* The list starts with the entries of the earlier list.
startsWith(list, earlier) ==
  /\ Len(earlier) <= Len(list)
  /\ SubSeq(list, 1, Len(earlier)) = earlier

\* C18 as stated: within one session the Constraint Set only grows.  In every
\* step other than the start of a new session a locked position keeps its
\* letter, and the exclusion lists and the excluded letters keep their
\* entries.
C18_ConstraintSetOnlyGrows ==
  [][~(lastCall = "askToContinue" /\ lastCall' = "start")
       => /\ \A p \in Positions :
               greenLetters[p] # NoLetter => greenLetters'[p] = greenLetters[p]
          /\ \A p \in Positions :
               startsWith(yellowLetters'[p], yellowLetters[p])
          /\ startsWith(greyLetters', greyLetters)]_vars

\* C19: starting a new session resets all session state together: while the
\* length is asked for, the locks, exclusions, excluded letters, used letters
\* and candidate set are empty and there is no solver; and the first
\* candidate set and suggestions of a session are those of the solver's whole
\* word list with nothing used.
C19_NewSessionStartsEmpty ==
  /\ lastCall = "start"
       => /\ wordList = <<>>
          /\ greenLetters = NoLocks
          /\ yellowLetters = NoExclusions
          /\ greyLetters = <<>>
          /\ usedLetters = {}
          /\ currentPossibleWords = <<>>
  /\ (lastCall = "getNextGuess" /\ usedLetters = {})
       => /\ currentPossibleWords = wordLists[solverLength]
          /\ suggestions =
               suggestGuessesPlain(wordLists[solverLength], {},
                                   DefaultSuggestions)

\* C19 happens: y was answered after a game with a solver, and the length is
\* asked for again.
C19_SessionReset ==
  /\ lastCall = "start"
  /\ solverLength # NoSolver
  /\ suggestions # <<>>

\* ------------------------------------------------ the solver called twice
\* The constraints the two calls are made with: no lock or the first letter
\* locked at the first position, no exclusion or the last letter excluded at
\* the second position, and no excluded letter, the first letter, or the last
\* letter pushed twice.
PureConstraints ==
  {[greenLetters |-> green, yellowLetters |-> yellow, greyLetters |-> grey] :
     green \in {NoLocks, [NoLocks EXCEPT ![1] = 1]},
     yellow \in {NoExclusions, [NoExclusions EXCEPT ![2] = <<NumLetters>>]},
     grey \in {<<>>, <<1>>, <<NumLetters, NumLetters>>}}

\* A solver for one of the dictionaries, and the arguments of the calls.
InitPure ==
  /\ wordList \in Dictionaries
  /\ \E constraints \in PureConstraints :
       /\ greenLetters = constraints.greenLetters
       /\ yellowLetters = constraints.yellowLetters
       /\ greyLetters = constraints.greyLetters
  /\ usedLetters \in SUBSET Letters
  /\ currentPossibleWords = <<>>
  /\ suggestions = NoSuggestions
  /\ refiltered = <<>>
  /\ guess = <<>>
  /\ feedbacks = <<>>
  /\ partitionScore = 0
  /\ SolverReady
  /\ lastCall = "constructor"

\* The two calls if scoreWords sorted the words passed to it, in place.
FilterAndSuggest_sortsInPlace ==
  LET possibleWords ==
        findPossibleWords(wordList, greenLetters, yellowLetters, greyLetters)
      result ==
        suggestGuesses(solverLength, wordList, possibleWords, usedLetters,
                       DefaultSuggestions)
  IN  /\ currentPossibleWords' =
           IF usedLetters = {} THEN possibleWords
           ELSE [i \in DOMAIN result.solutionGuesses |->
                   result.solutionGuesses[i].word]
      /\ suggestions' = result
      /\ UNCHANGED <<wordList, greenLetters, yellowLetters, greyLetters,
                     usedLetters, refiltered, guess, feedbacks,
                     partitionScore>>
      /\ UNCHANGED solverVars

\* findPossibleWords(greenLetters, yellowLetters, greyLetters) and then
\* suggestGuesses(possibleWords, usedLetters) on its result.  Neither assigns
\* to a field of the solver or to an element of an argument: the arrays that
\* are sorted or written are made by filter, map, Array.from or a spread.
FilterAndSuggest ==
  LET possibleWords ==
        findPossibleWords(wordList, greenLetters, yellowLetters, greyLetters)
  IN  /\ currentPossibleWords' = possibleWords
      /\ suggestions' =
           suggestGuesses(solverLength, wordList, possibleWords, usedLetters,
                          DefaultSuggestions)
      /\ UNCHANGED <<wordList, greenLetters, yellowLetters, greyLetters,
                     usedLetters, refiltered, guess, feedbacks,
                     partitionScore>>
      /\ UNCHANGED solverVars

\* The first pair of calls.
CallOnce ==
  /\ lastCall = "constructor"
  /\ FilterAndSuggest
  /\ lastCall' = "called once"

\* The same calls again, with the same arguments.
CallAgain ==
  /\ lastCall = "called once"
  /\ FilterAndSuggest
  /\ lastCall' = "called again"

NextPure ==
  \/ CallOnce
  \/ CallAgain

SpecPure == InitPure /\ [][NextPure]_vars

trueFeedback(guessedWord, solution) ==
  LET pattern == simulateFeedback(guessedWord, solution)
  IN  [p \in Positions |->
         IF pattern[p] = "G" THEN "g"
         ELSE IF pattern[p] = "Y" THEN "y" ELSE "x"]

\* A session in which the user has one secret word of the dictionary in mind.
InitSecret ==
  /\ newWordleCLI
  /\ secret \in Range(wordLists[WordLength])

\* getFeedback: the user answers the question for the feedback with the true
\* feedback of the guess; processFeedback applies it and getNextGuess runs.
AnswerTruthfully ==
  /\ lastCall = "getFeedback"
  /\ LET result ==
           processFeedback(trueFeedback(guess, secret), guess, greenLetters,
                           yellowLetters, greyLetters)
     IN  /\ error' = result.error
         /\ greenLetters' = result.greenLetters
         /\ yellowLetters' = result.yellowLetters
         /\ greyLetters' = result.greyLetters
         /\ getNextGuess(wordList, result.greenLetters, result.yellowLetters,
                         result.greyLetters, usedLetters)
  /\ UNCHANGED <<wordList, solverLength, usedLetters, refiltered, feedbacks,
                 partitionScore, secret, guessCandidates>>

NextSecret ==
  \/ EnterLength
  \/ EnterGuess
  \/ AnswerTruthfully
  \/ AnswerContinue

SpecSecret == InitSecret /\ [][NextSecret]_vars

\* C22 as stated: if every feedback string entered in a session is the true
\* two-pass feedback of the guess against one fixed secret word of the
\* dictionary, then after any sequence of accepted guesses the secret word
\* is still in the candidate set returned by findPossibleWords.
C22_SecretRetained ==
  lastCall \in {"getNextGuess", "getFeedback", "askToContinue"}
    => Includes(currentPossibleWords, secret)

\* C23: in every reachable session state the used letters are the letters of
\* all guesses accepted so far in the session, whatever colour each letter
\* received: they are empty when the session starts, the step that accepts a
\* guess adds the letters of the guess, the start of a new session empties
\* them and no other step changes them; consequently every letter held in a
\* lock, an exclusion list or the excluded letters is in the used letters.
C23_UsedLettersAreGuessedLetters ==
  /\ usedLetters = {}
  /\ [][IF lastCall = "askToContinue" /\ lastCall' = "start"
        THEN usedLetters' = {}
        ELSE IF lastCall = "getNextGuess" /\ lastCall' = "getFeedback"
             THEN usedLetters' = usedLetters \cup Range(guess')
             ELSE usedLetters' = usedLetters]_vars
  /\ [](guessedLetters \subseteq usedLetters)

\* C23 happens: feedback of two guesses was applied, and a used letter is
\* held by no lock, exclusion list or excluded letter any more.
C23_UsedLetterWithoutConstraint ==
  /\ lastCall \in {"getNextGuess", "askToContinue"}
  /\ greyLetters # <<>>
  /\ greenLetters # NoLocks
  /\ usedLetters \ guessedLetters # {}

\* ------------------------------ the latest solver after one round of feedback
\* The letters of a round: two more than the filter's, so that a dictionary
\* word can hold a letter that is in no candidate and in no guess.
RoundLetters == 1..(NumLetters + 2)

\* The words the user can enter as the guess of the round.
RoundWords == [Positions -> RoundLetters]

\* A dictionary that does not hold every word: the first letter followed by
\* the second or the third (aab, aac), and the last letter followed by the
\* second or the third (dbb, dcc).
RoundDictionary ==
  SortedWords({[p \in Positions |-> IF p < WordLength THEN 1 ELSE last] :
                 last \in 2..3}
                \cup {[p \in Positions |-> IF p = 1 THEN NumLetters + 2
                                           ELSE other] :
                        other \in 2..3})

\* A solver for the dictionary, and a caller that holds the Constraint Set
\* and the used letters after one guess and the feedback the secret word
\* gives it.
InitRound ==
  /\ wordList = RoundDictionary
  /\ secret \in Range(RoundDictionary)
  /\ guess \in RoundWords
  /\ LET result ==
           processFeedback(trueFeedback(guess, secret), guess, NoLocks,
                           NoExclusions, <<>>)
     IN  /\ greenLetters = result.greenLetters
         /\ yellowLetters = result.yellowLetters
         /\ greyLetters = result.greyLetters
  /\ usedLetters = Range(guess)
  /\ currentPossibleWords = <<>>
  /\ suggestions = NoSuggestions
  /\ refiltered = <<>>
  /\ feedbacks = <<>>
  /\ partitionScore = 0
  /\ solverLength = WordLength
  /\ error = ""
  /\ promptedWith = NoConstraints
  /\ guessCandidates = <<>>
  /\ lastCall = "constructor"

SpecRound == InitRound /\ [][CallOnce]_vars

\* The composite score of a guess word before the penalties, in the units of
\* informationScore.
compositeScore(word) ==
  LET letterFrequency ==
        calculateLetterFrequency(currentPossibleWords,
                                 greenPositionWeights(currentPossibleWords))
      bonusLetters == newUnknownLetters(word) \cap DOMAIN letterFrequency
  IN  2 * weightInformationGain
        * calculatePartitionScore(word, currentPossibleWords)
        + 1000 * Len(currentPossibleWords)
            * SumOver([letter \in bonusLetters |->
                         letterFrequency[letter].weightedTotal
                           * weightLetterFrequency],
                      bonusLetters)

\* The two scores are the same number.
sameScore(a, b) == ~ScoreGreater(a, b) /\ ~ScoreGreater(b, a)

\* C24 as stated: in scoreInformationWords with usedLetters not empty, the
\* composite score of a guess is multiplied by 0.3 once for each distinct
\* letter of the guess that the feedback marked green or yellow, and by 0.1
\* for each position where the guess holds the letter that the feedback
\* confirmed green there; a letter that was never marked green or yellow
\* brings no penalty.
C24_PenaltyForMarkedLetters ==
  lastCall = "called once"
    => \A i \in DOMAIN suggestions.informationGuesses :
         LET item == suggestions.informationGuesses[i]
             marked == confirmedLetters(greenLetters, yellowLetters)
             markedUsed == Cardinality(Range(item.word) \cap marked)
             greensUsed ==
               Cardinality({p \in Positions :
                              /\ greenLetters[p] # NoLetter
                              /\ item.word[p] = greenLetters[p]})
         IN  sameScore(item.score,
                       [mant |-> compositeScore(item.word)
                                   * Power(3, markedUsed),
                        exp |-> markedUsed + greensUsed])

\* ---------------------------- selectInformationGuessCandidates on its own
\* The letters of the dictionary the selection is run on: enough of them for
\* a dictionary of more than FewPossibleWords words.
SelectLetters == 1..(NumLetters + 4)

\* The dictionary of the selection: one word for every choice of the first
\* three letters; the positions after the third repeat the third letter.
SelectDictionary ==
  SortedWords({[p \in Positions |-> first[Min(p, ManyUnusedLetters)]] :
                 first \in [1..ManyUnusedLetters -> SelectLetters]})

\* The candidate lists passed to the selection: the first 99 and the first
\* 100 words of the dictionary, and the words without the last letter
\* followed by none of the words that hold it, by as many as bring the letter
\* to 20% of the list, or by one word less.
SelectLists ==
  LET rare == NumLetters + 4
      without == SelectSeq(SelectDictionary, LAMBDA w : ~Includes(w, rare))
      holders == SelectSeq(SelectDictionary, LAMBDA w : Includes(w, rare))
      fifth == (Len(without) + 3) \div 4
  IN  {SubSeq(SelectDictionary, 1, n) :
         n \in {FewPossibleWords - 1, FewPossibleWords}}
        \cup {without \o SubSeq(holders, 1, k) : k \in {0, fifth - 1, fifth}}

\* A solver for the dictionary, a candidate list and the used letters.
InitSelect ==
  /\ wordList = SelectDictionary
  /\ currentPossibleWords \in SelectLists
  /\ usedLetters \in SUBSET SelectLetters
  /\ greenLetters = NoLocks
  /\ yellowLetters = NoExclusions
  /\ greyLetters = <<>>
  /\ refiltered = <<>>
  /\ suggestions = NoSuggestions
  /\ guess = <<>>
  /\ feedbacks = <<>>
  /\ partitionScore = 0
  /\ SolverReady
  /\ lastCall = "constructor"

\* selectInformationGuessCandidates(possibleWords, usedLetters)
SelectInformationGuessCandidates ==
  /\ lastCall = "constructor"
  /\ guessCandidates' =
       selectInformationGuessCandidates(wordList, currentPossibleWords,
                                        usedLetters)
  /\ lastCall' = "selectInformationGuessCandidates"
  /\ UNCHANGED <<wordList, currentPossibleWords, usedLetters, suggestions,
                 guess, feedbacks, partitionScore, solverLength, error,
                 promptedWith, secret>>
  /\ UNCHANGED filterVars

SpecSelect == InitSelect /\ [][SelectInformationGuessCandidates]_vars

\* The word has at least 3 distinct letters that are not in usedLetters and
\* that each occur in at least 20% of the candidate words.
manyUnusedCommon(word) ==
  LET candidates == currentPossibleWords
      holding(letter) ==
        {i \in DOMAIN candidates : Includes(candidates[i], letter)}
  IN  Cardinality({letter \in Range(word) \ usedLetters :
                     5 * Cardinality(holding(letter)) >= Len(candidates)})
        >= 3

\* C25: selectInformationGuessCandidates returns the whole dictionary when
\* the candidate set has fewer than 100 words; otherwise it returns exactly
\* the candidate words and the dictionary words with at least 3 distinct
\* unused letters that each occur in at least 20% of the candidate words, no
\* word twice; in both cases every candidate word is among the guess words.
C25_GuessCandidates ==
  lastCall = "selectInformationGuessCandidates"
    => /\ Len(currentPossibleWords) < 100 => guessCandidates = wordList
       /\ Len(currentPossibleWords) >= 100
            => /\ Range(guessCandidates)
                    = Range(currentPossibleWords)
                        \cup {word \in Range(wordList) :
                                manyUnusedCommon(word)}
               /\ Cardinality(Range(guessCandidates)) = Len(guessCandidates)
       /\ Range(currentPossibleWords) \subseteq Range(guessCandidates)

\* C25 happens: the candidate list has 100 words or more, a dictionary word
\* that is no candidate is selected, and a dictionary word of three distinct
\* letters is not.
C25_SelectedAndLeftOut ==
  /\ lastCall = "selectInformationGuessCandidates"
  /\ Len(currentPossibleWords) >= 100
  /\ Range(guessCandidates) \ Range(currentPossibleWords) # {}
  /\ \E word \in Range(wordList) \ Range(guessCandidates) :
       Cardinality(Range(word)) = 3

\* ------------------------------------------- the letter-frequency bonus
\* 15 * partition score * 0.3^(known letters used) * 0.1^(green positions
\* matched) for the word and the candidate list, in the units of
\* informationScore.
penalisedPartitionScore(word) ==
  LET knownLetters ==
        getGreenLetters(currentPossibleWords)
          \cup getYellowLetters(currentPossibleWords)
      knownLettersUsed == Cardinality(Range(word) \cap knownLetters)
      greenPositions == getGreenPositions(currentPossibleWords)
      greensMatched ==
        Cardinality({p \in Positions : word[p] = greenPositions[p]})
  IN  [mant |-> 2 * 15
                  * calculatePartitionScore(word, currentPossibleWords)
                  * Power(3, knownLettersUsed),
       exp |-> knownLettersUsed + greensMatched]

\* The letter frequencies suggestGuesses passes to scoreInformationWords.
infoLetterFrequency ==
  calculateLetterFrequency(currentPossibleWords,
                           greenPositionWeights(currentPossibleWords))

\* The score scoreInformationWords gives the word when suggestGuesses calls
\* it for the candidate list.
scoreOf(word, letterFrequency) ==
  informationScore(word, usedLetters, letterFrequency, currentPossibleWords,
                   FALSE)

\* C26 as stated: with usedLetters and the candidate set not empty, the score
\* of every guess word in scoreInformationWords is exactly
\* 15 * partition score * 0.3^(known letters used)
\* * 0.1^(green positions matched).
C26_EveryWordPenalisedPartition ==
  (lastCall = "suggestGuesses" /\ usedLetters # {}
     /\ currentPossibleWords # <<>>)
    => LET letterFrequency == infoLetterFrequency
       IN  \A word \in Range(wordList) :
             scoreOf(word, letterFrequency) = penalisedPartitionScore(word)

\* C26: with usedLetters and the candidate set not empty, the known letters
\* derived from the candidate set contain every letter of every candidate
\* word, so no letter of a guess word gets the letter-frequency bonus; the
\* score of every guess word that has a new unknown letter is exactly
\* 15 * partition score * 0.3^(known letters used)
\* * 0.1^(green positions matched), the score of the other guess words is 0,
\* and the information list holds these scores.
C26_BonusIsZero ==
  (lastCall = "suggestGuesses" /\ usedLetters # {}
     /\ currentPossibleWords # <<>>)
    => /\ lettersOf(currentPossibleWords)
            \subseteq getGreenLetters(currentPossibleWords)
                        \cup getYellowLetters(currentPossibleWords)
       /\ LET letterFrequency == infoLetterFrequency
          IN  \A word \in Range(wordList) :
                /\ newUnknownLetters(word) \cap DOMAIN letterFrequency = {}
                /\ scoreOf(word, letterFrequency) =
                     IF newUnknownLetters(word) = {} THEN WholeScore(0)
                     ELSE penalisedPartitionScore(word)
       /\ \A i \in DOMAIN suggestions.informationGuesses :
            LET item == suggestions.informationGuesses[i]
            IN  item.score = penalisedPartitionScore(item.word)

\* C26 happens: the information list has items, and a guess word with a
\* score above 0 holds a new letter, a known letter that is unused and a
\* letter at a green position of the candidates.
C26_PenalisedWordScored ==
  /\ lastCall = "suggestGuesses"
  /\ usedLetters # {}
  /\ suggestions.informationGuesses # <<>>
  /\ \E word \in Range(wordList) :
       /\ newUnknownLetters(word) # {}
       /\ ScorePositive(scoreOf(word, infoLetterFrequency))
       /\ (Range(word) \cap lettersOf(currentPossibleWords))
            \ usedLetters # {}
       /\ \E p \in Positions :
            word[p] = getGreenPositions(currentPossibleWords)[p]

\* ------------------------------------------ the end of a session
\* C27: in the interactive session, whenever the recomputed candidate set has
\* 0 or 1 words, no guess and no feedback is asked for (a guess or feedback
\* is only pending with 2 candidates or more), and the only next steps are
\* the start of a new session, which empties the Constraint Set and the used
\* letters, and closing, which leaves them as they are.
C27_DecidedSessionAcceptsNothing ==
  /\ [](lastCall \in {"getNextGuess", "getFeedback"}
          => Len(currentPossibleWords) >= 2)
  /\ [][(/\ lastCall \in {"getNextGuess", "getFeedback", "askToContinue"}
         /\ Len(currentPossibleWords) <= 1)
          => /\ lastCall' \in {"start", "close"}
             /\ lastCall' = "start"
                  => /\ greenLetters' = NoLocks
                     /\ yellowLetters' = NoExclusions
                     /\ greyLetters' = <<>>
                     /\ usedLetters' = {}
             /\ lastCall' = "close"
                  => UNCHANGED <<greenLetters, yellowLetters, greyLetters,
                                 usedLetters>>]_vars

\* C27 happens: feedback left one candidate and the session was closed at
\* the question for a new game, with the lock still in the Constraint Set.
C27_ClosedWithOneCandidate ==
  /\ lastCall = "close"
  /\ Len(currentPossibleWords) = 1
  /\ greenLetters # NoLocks

\* ------------------------------------------- the sizes of the lists
\* C28: when usedLetters is not empty, the solution list returned by
\* suggestGuesses has exactly min(numSuggestions, size of the candidate set)
\* items, each of them a distinct word of the candidate set passed in; the
\* information list has at most numSuggestions items and is empty when the
\* candidate set has fewer than 2 words.
C28_ListSizes ==
  (lastCall = "suggestGuesses" /\ usedLetters # {})
    => LET solutions == suggestions.solutionGuesses
           information == suggestions.informationGuesses
       IN  /\ Len(solutions)
                = Min(DefaultSuggestions, Len(currentPossibleWords))
           /\ \A i \in DOMAIN solutions :
                /\ Includes(currentPossibleWords, solutions[i].word)
                /\ \A j \in DOMAIN solutions :
                     i # j => solutions[i].word # solutions[j].word
           /\ Len(information) <= DefaultSuggestions
           /\ Len(currentPossibleWords) < 2 => information = <<>>

\* C28 happens: with usedLetters not empty, more candidates than
\* numSuggestions are passed and the solution list is cut.
C28_SolutionListCut ==
  /\ lastCall = "suggestGuesses"
  /\ usedLetters # {}
  /\ Len(currentPossibleWords) > DefaultSuggestions
  /\ Len(suggestions.solutionGuesses) = DefaultSuggestions

====
